---------------------------- MODULE Spec2Model ----------------------------
(***************************************************************************)
(* paper-trail: the reader store (zustand), the uploaded-papers sidebar    *)
(* and the copilot chat panel, as state machines.                          *)
(*                                                                         *)
(* React state is modelled at the granularity of event-loop tasks: the     *)
(* synchronous part of a handler together with the render and the effects  *)
(* it triggers is one step; the continuation of an async handler after an  *)
(* awaited network request is another step, which reads the values its     *)
(* closure captured when the handler was called.                           *)
(***************************************************************************)
EXTENDS Integers, Sequences, FiniteSets, TLC

VARIABLES
    \* ---- reader store (src/unnamed/part_001) ----
    openPapers,        \* sequence of [id, title]
    activePaperId,     \* an id, or NoId for ''
    usedSetOpenPapers, \* history: setOpenPapers has been called
    strayActivate,     \* history: setActivePaperId was called with an id not open
    \* ---- papers sidebar (src/unnamed/part_000) ----
    papers,            \* sequence of SavedPaper
    sbIsLoading,       \* isLoading: the GET /api/papers of the mount is pending
    searchQuery,       \* text
    filteredPapers,    \* sequence of SavedPaper
    sbIsCollapsed,     \* isCollapsed
    deletes,           \* set of DELETE requests in flight: [id, snap], snap
                       \* the papers its deletePaper closure captured
    confirmed,         \* history: ids whose deletion the user confirmed
    okDeleted,         \* history: ids whose DELETE returned OK
    \* ---- copilot chat (src/components/copilot-chat.tsx) ----
    isOpen,            \* prop
    paperId,           \* prop; "" when absent
    autoPrompt,        \* prop; "" when absent
    forceExpand,       \* prop
    messages,          \* sequence of Message
    inputValue,        \* text
    isLoading,
    isCollapsed,
    selectedTool,      \* a tool id, or NoTool for null
    showTools,
    graphWorkflow,     \* GraphGenerationWorkflow
    sends,             \* sendMessage calls awaiting a request: [kind, prompt,
                       \* paperId], in the order they were issued
    graphPosts,        \* POSTs of executeGraphGeneration in flight: the body sent
    \* ---- label of the last step taken (observation only) ----
    ev

storeVars == <<openPapers, activePaperId, usedSetOpenPapers, strayActivate>>

sidebarVars == <<papers, sbIsLoading, searchQuery, filteredPapers, sbIsCollapsed,
                 deletes, confirmed, okDeleted>>

chatProps == <<isOpen, paperId, autoPrompt, forceExpand>>

chatVars == <<chatProps, messages, inputValue, isLoading, isCollapsed, selectedTool,
              showTools, graphWorkflow, sends, graphPosts>>

vars == <<storeVars, sidebarVars, chatVars, ev>>

-----------------------------------------------------------------------------
(* Generic sequence helpers.                                               *)

\* All sequences over S of length at most n.
SeqsUpTo(S, n) == UNION { [1..k -> S] : k \in 0..n }

\* The elements of a sequence.
Range(s) == { s[i] : i \in 1..Len(s) }

\* s without its i-th element.
RemoveAt(s, i) == SubSeq(s, 1, i-1) \o SubSeq(s, i+1, Len(s))

-----------------------------------------------------------------------------
(* Text: a string is a sequence of one-character strings.                  *)

\* String.prototype.toLowerCase on one character of the alphabet used.
Lower(c) ==
    CASE c = "A" -> "a"
      [] c = "B" -> "b"
      [] c = "C" -> "c"
      [] OTHER -> c

\* String.prototype.toLowerCase
ToLowerCase(s) == [i \in 1..Len(s) |-> Lower(s[i])]

\* String.prototype.includes
Includes(s, sub) ==
    \E k \in 0..(Len(s) - Len(sub)) : SubSeq(s, k+1, k+Len(sub)) = sub

RECURSIVE TrimStart(_)
TrimStart(s) ==
    IF s # <<>> /\ Head(s) = " " THEN TrimStart(Tail(s)) ELSE s

RECURSIVE TrimEnd(_)
TrimEnd(s) ==
    IF s # <<>> /\ s[Len(s)] = " " THEN TrimEnd(SubSeq(s, 1, Len(s)-1)) ELSE s

\* String.prototype.trim
Trim(s) == TrimEnd(TrimStart(s))

-----------------------------------------------------------------------------
(* Reader store: useReaderStore.                                           *)

\* bounds
MaxSetLen == 2

\* '' (the initial activePaperId)
NoId == 0

Ids == {1, 2, 3}
Titles == {"t1", "t2"}
Entries == [id : Ids, title : Titles]

InitStore ==
    /\ openPapers = <<>>
    /\ activePaperId = NoId
    /\ usedSetOpenPapers = FALSE
    /\ strayActivate = FALSE

\* openPapers.some(p => p.id === id)
IsOpenId(list, id) == \E i \in 1..Len(list) : list[i].id = id

setOpenPapers(list) ==
    /\ openPapers' = list
    /\ usedSetOpenPapers' = TRUE
    /\ UNCHANGED <<activePaperId, strayActivate>>
    /\ ev' = [op |-> "setOpenPapers", id |-> NoId, wasOpen |-> FALSE, wasActive |-> FALSE]

setActivePaperId(id) ==
    /\ activePaperId' = id
    /\ strayActivate' = (strayActivate \/ ~IsOpenId(openPapers, id))
    /\ UNCHANGED <<openPapers, usedSetOpenPapers>>
    /\ ev' = [op |-> "setActivePaperId", id |-> id,
              wasOpen |-> IsOpenId(openPapers, id), wasActive |-> (activePaperId = id)]

AddPaperDup(list, p) == list \o <<p>>

AddPaperReplace(list, p) ==
    IF ~IsOpenId(list, p.id) THEN list \o <<p>>
    ELSE [i \in 1..Len(list) |-> IF list[i].id = p.id THEN p ELSE list[i]]

\* the updater of addPaper: the next openPapers
AddPaperList(list, p) ==
    IF ~IsOpenId(list, p.id) THEN list \o <<p>> ELSE list

addPaper(p) ==
    /\ openPapers' = AddPaperList(openPapers, p)
    /\ UNCHANGED <<activePaperId, usedSetOpenPapers, strayActivate>>
    /\ ev' = [op |-> "addPaper", id |-> p.id,
              wasOpen |-> IsOpenId(openPapers, p.id), wasActive |-> (activePaperId = p.id)]

\* the updater of removePaper: the next openPapers (Array.prototype.filter)
RemovePaperList(list, id) ==
    LET Keep(p) == p.id # id IN SelectSeq(list, Keep)

RemovePaperActiveAlways(active, id) == NoId

RemovePaperActiveKept(active, id) == active

\* the updater of removePaper: the next activePaperId
RemovePaperActive(active, id) ==
    IF active = id THEN NoId ELSE active

removePaper(id) ==
    /\ openPapers' = RemovePaperList(openPapers, id)
    /\ activePaperId' = RemovePaperActive(activePaperId, id)
    /\ UNCHANGED <<usedSetOpenPapers, strayActivate>>
    /\ ev' = [op |-> "removePaper", id |-> id,
              wasOpen |-> IsOpenId(openPapers, id), wasActive |-> (activePaperId = id)]

clearAllPapers ==
    /\ openPapers' = <<>>
    /\ activePaperId' = NoId
    /\ UNCHANGED <<usedSetOpenPapers, strayActivate>>
    /\ ev' = [op |-> "clearAllPapers", id |-> NoId, wasOpen |-> FALSE, wasActive |-> FALSE]

StoreStep ==
    \/ \E list \in SeqsUpTo(Entries, MaxSetLen) : setOpenPapers(list)
    \/ \E id \in Ids : setActivePaperId(id)
    \/ \E p \in Entries : addPaper(p)
    \/ \E id \in Ids : removePaper(id)
    \/ clearAllPapers

-----------------------------------------------------------------------------
(* Papers sidebar: UploadPapersSidebar.                                    *)

\* bounds
MaxQueryLen == 2
MaxDeletes == 2

\* SavedPaper records (id, title, authors) the server may list.
Paper1 == [id |-> 1, title |-> <<"A", "b">>, authors |-> << <<"c">> >>]
Paper2 == [id |-> 2, title |-> <<"b", " ", "a">>, authors |-> << <<"a", "C">>, <<"B">> >>]
Paper3 == [id |-> 3, title |-> <<"c">>, authors |-> << >>]

PaperIds == {Paper1.id, Paper2.id, Paper3.id}

\* What the user may type into the search box.
QueryChars == {"B", " "}
Queries == SeqsUpTo(QueryChars, MaxQueryLen)

\* Bodies of an OK response of GET /api/papers: data.papers || [].
ServerLists == { <<>>, <<Paper1, Paper2, Paper3>>, <<Paper3, Paper1>> }

InitSidebar ==
    /\ papers = <<>>
    /\ sbIsLoading = TRUE
    /\ searchQuery = <<>>
    /\ filteredPapers = <<>>
    /\ sbIsCollapsed = FALSE
    /\ deletes = {}
    /\ confirmed = {}
    /\ okDeleted = {}

PaperMatchesExact(paper, query) ==
    \/ Includes(ToLowerCase(paper.title), query)
    \/ \E a \in 1..Len(paper.authors) :
           Includes(ToLowerCase(paper.authors[a]), query)

\* the predicate of papers.filter in the filter effect
PaperMatches(paper, query) ==
    \/ Includes(ToLowerCase(paper.title), ToLowerCase(query))
    \/ \E a \in 1..Len(paper.authors) :
           Includes(ToLowerCase(paper.authors[a]), ToLowerCase(query))

\* the effect on [searchQuery, papers]: the next filteredPapers
FilterEffect(list, query) ==
    IF Trim(query) # <<>>
    THEN LET Keep(paper) == PaperMatches(paper, query) IN SelectSeq(list, Keep)
    ELSE list

\* the continuation of loadSavedPapers; body is data.papers || []
LoadResponse(outcome, body) ==
    /\ sbIsLoading
    /\ papers' = IF outcome = "ok" THEN body ELSE <<>>
    /\ sbIsLoading' = FALSE
    /\ filteredPapers' = FilterEffect(papers', searchQuery)
    /\ UNCHANGED <<searchQuery, sbIsCollapsed, deletes, confirmed, okDeleted>>
    /\ ev' = [op |-> "loadResponse", id |-> NoId, outcome |-> outcome]

\* onChange of the search input
setSearchQuery(q) ==
    /\ ~sbIsCollapsed
    /\ searchQuery' = q
    /\ filteredPapers' = FilterEffect(papers, q)
    /\ UNCHANGED <<papers, sbIsLoading, sbIsCollapsed, deletes, confirmed, okDeleted>>
    /\ ev' = [op |-> "setSearchQuery", id |-> NoId, outcome |-> "none"]

\* the collapse button
ToggleSidebar ==
    /\ sbIsCollapsed' = ~sbIsCollapsed
    /\ UNCHANGED <<papers, sbIsLoading, searchQuery, filteredPapers, deletes,
                   confirmed, okDeleted>>
    /\ ev' = [op |-> "toggleSidebar", id |-> NoId, outcome |-> "none"]

\* The delete button of paper id is rendered.
DeleteButtonShown(id) ==
    /\ ~sbIsCollapsed
    /\ ~sbIsLoading
    /\ \E i \in 1..Len(filteredPapers) : filteredPapers[i].id = id

\* deletePaper up to its await: the requests in flight after the click
DeleteRequestsAfterClick(reqs, id, snap, ok) ==
    IF ~ok THEN reqs ELSE reqs \cup {[id |-> id, snap |-> snap]}

\* deletePaper(paperId, event), with the answer given to window.confirm
deletePaper(id, ok) ==
    /\ DeleteButtonShown(id)
    /\ Cardinality(deletes) < MaxDeletes
    /\ [id |-> id, snap |-> papers] \notin deletes
    /\ deletes' = DeleteRequestsAfterClick(deletes, id, papers, ok)
    /\ confirmed' = IF ok THEN confirmed \cup {id} ELSE confirmed
    /\ UNCHANGED <<papers, sbIsLoading, searchQuery, filteredPapers, sbIsCollapsed,
                   okDeleted>>
    /\ ev' = [op |-> "deletePaper", id |-> id,
              outcome |-> IF ok THEN "confirm" ELSE "cancel"]

PapersAfterDeleteAnyStatus(cur, req, outcome) ==
    LET Keep(paper) == paper.id # req.id IN SelectSeq(req.snap, Keep)

\* deletePaper after its await: the next papers
PapersAfterDelete(cur, req, outcome) ==
    IF outcome = "ok"
    THEN LET Keep(paper) == paper.id # req.id IN SelectSeq(req.snap, Keep)
    ELSE cur

\* the continuation of deletePaper when its DELETE request settles
DeleteResponse(req, outcome) ==
    /\ req \in deletes
    /\ papers' = PapersAfterDelete(papers, req, outcome)
    /\ filteredPapers' = FilterEffect(papers', searchQuery)
    /\ deletes' = deletes \ {req}
    /\ okDeleted' = IF outcome = "ok" THEN okDeleted \cup {req.id} ELSE okDeleted
    /\ UNCHANGED <<sbIsLoading, searchQuery, sbIsCollapsed, confirmed>>
    /\ ev' = [op |-> "deleteResponse", id |-> req.id, outcome |-> outcome]

FetchOutcomes == {"ok", "notOk", "throw"}

SidebarStep ==
    \/ \E outcome \in FetchOutcomes, body \in ServerLists : LoadResponse(outcome, body)
    \/ \E q \in Queries : setSearchQuery(q)
    \/ ToggleSidebar
    \/ \E id \in PaperIds, ok \in BOOLEAN : deletePaper(id, ok)
    \/ \E req \in deletes, outcome \in FetchOutcomes : DeleteResponse(req, outcome)

-----------------------------------------------------------------------------
(* Copilot chat: CopilotChat. State, messages and effects.                 *)

\* bounds
MaxMessages == 3
MaxGraphPosts == 2

\* initial value of graphWorkflow.clipCount
DefaultClipCount == 5

\* selectedTool = null
NoTool == "none"

\* AVAILABLE_TOOLS: ids
ToolIds == {"video-generation", "graph-generation"}

\* AVAILABLE_TOOLS: tool.placeholder
Placeholder(tool) ==
    IF tool = "video-generation" THEN <<"Generate", " ", "a", " ", "video", " ", "explaining...">>
    ELSE <<"Add", " ", "to", " ", "graph:", " ", "concepts", " ", "about...">>

\* What the user may type into the chat input: nothing, a blank only, a
\* question followed by a blank.
InputTexts == { <<>>, <<" ">>, <<"why?", " ">> }

\* Values of the paperId prop.
PaperIdValues == {"", "paper-1"}

\* a Message of the user
UserMessageWithoutTool(text, tool) ==
    [isUser |-> TRUE, content |-> text, toolUsed |-> NoTool, toolResult |-> "none"]

\* sendMessage: userMessage
UserMessage(text, tool) ==
    [isUser |-> TRUE, content |-> text, toolUsed |-> tool, toolResult |-> "none"]

\* a Message of the assistant; what names its content
AssistantMessage(what, result) ==
    [isUser |-> FALSE, content |-> <<what>>, toolUsed |-> NoTool, toolResult |-> result]

\* the welcome message of the effect on [isOpen, messages.length, paperId]
WelcomeMessage(pid) ==
    AssistantMessage(IF pid # "" THEN "welcome-paper" ELSE "welcome", "none")

\* `What does this mean: "${autoPrompt}"`
AutoPromptText(ap) == <<"What", " ", "does", " ", "this", " ", "mean:", " ", ap>>

\* The values a render of the component reads in its effects.
View(open, pid, ap, force, msgs, input, collapsed) ==
    [isOpen |-> open, paperId |-> pid, autoPrompt |-> ap, forceExpand |-> force,
     messages |-> msgs, inputValue |-> input, isCollapsed |-> collapsed]

WelcomeRunsOnMountOnly(prev, cur, mount) == mount

\* The welcome effect runs on mount and when one of its dependencies
\* [isOpen, messages.length, paperId] differs from the render before.
WelcomeRuns(prev, cur, mount) ==
    mount \/ prev.isOpen # cur.isOpen
          \/ Len(prev.messages) # Len(cur.messages)
          \/ prev.paperId # cur.paperId

ExpandRunsWithoutCollapsed(prev, cur, mount) ==
    mount \/ prev.autoPrompt # cur.autoPrompt
          \/ prev.forceExpand # cur.forceExpand
          \/ prev.isOpen # cur.isOpen

\* The auto-expand effect runs on mount and when one of its dependencies
\* [autoPrompt, forceExpand, isOpen, isCollapsed] differs.
ExpandRuns(prev, cur, mount) ==
    mount \/ prev.autoPrompt # cur.autoPrompt
          \/ prev.forceExpand # cur.forceExpand
          \/ prev.isOpen # cur.isOpen
          \/ prev.isCollapsed # cur.isCollapsed

\* One commit's effects, in the order they are declared: prev is the view of the
\* render before (for the dependency arrays), cur this render's view; mount
\* says this is the first render, where every effect runs. The result is the
\* view after the state updates the effects queue.
EffectsPass(prev, cur, mount) ==
    LET welcomeRuns == WelcomeRuns(prev, cur, mount)
        expandRuns == ExpandRuns(prev, cur, mount)
        promptRuns == mount \/ prev.autoPrompt # cur.autoPrompt
                            \/ prev.isOpen # cur.isOpen
                            \/ prev.isCollapsed # cur.isCollapsed
        clearRuns == mount \/ prev.isCollapsed # cur.isCollapsed
                           \/ prev.autoPrompt # cur.autoPrompt
        msgs == IF welcomeRuns /\ cur.isOpen /\ Len(cur.messages) = 0
                THEN <<WelcomeMessage(cur.paperId)>>
                ELSE cur.messages
        collapsed == IF /\ expandRuns
                        /\ (cur.autoPrompt # "" \/ cur.forceExpand)
                        /\ cur.isOpen
                        /\ cur.isCollapsed
                     THEN FALSE
                     ELSE cur.isCollapsed
        input1 == IF ~promptRuns THEN cur.inputValue
                  ELSE IF cur.autoPrompt # "" /\ cur.isOpen /\ ~cur.isCollapsed
                       THEN AutoPromptText(cur.autoPrompt)
                       ELSE IF cur.autoPrompt = "" THEN <<>> ELSE cur.inputValue
        input2 == IF ~clearRuns THEN input1
                  ELSE IF cur.isCollapsed THEN <<>>
                       ELSE IF cur.autoPrompt = "" THEN <<>> ELSE input1
    IN [cur EXCEPT !.messages = msgs, !.isCollapsed = collapsed, !.inputValue = input2]

RECURSIVE Settle(_, _)
\* Renders and effects repeated until no effect changes the state.
Settle(prev, cur) ==
    LET next == EffectsPass(prev, cur, FALSE)
    IN IF next = cur THEN cur ELSE Settle(cur, next)

\* The view of the current state.
CurView == View(isOpen, paperId, autoPrompt, forceExpand, messages, inputValue, isCollapsed)

\* The state after the handler's updates (given as a view) and the effects
\* they trigger: the next messages, inputValue and isCollapsed.
Commit(after) ==
    LET v == Settle(CurView, after)
    IN /\ messages' = v.messages
       /\ inputValue' = v.inputValue
       /\ isCollapsed' = v.isCollapsed

\* graphWorkflow as initializeGraphGeneration sets it
FreshWorkflow(graphs) ==
    [isActive |-> TRUE, step |-> "topic", topic |-> "", clipCount |-> DefaultClipCount,
     selectedGraphId |-> "", availableGraphs |-> graphs]

\* The component after its first render and the effects of the mount.
InitChat(open, pid, ap, force) ==
    LET first == View(open, pid, ap, force, <<>>, <<>>, FALSE)
        v == Settle(first, EffectsPass(first, first, TRUE))
    IN /\ isOpen = open
       /\ paperId = pid
       /\ autoPrompt = ap
       /\ forceExpand = force
       /\ messages = v.messages
       /\ inputValue = v.inputValue
       /\ isCollapsed = v.isCollapsed
       /\ isLoading = FALSE
       /\ selectedTool = NoTool
       /\ showTools = FALSE
       /\ graphWorkflow = [FreshWorkflow(<<>>) EXCEPT !.isActive = FALSE]
       /\ sends = <<>>
       /\ graphPosts = <<>>

-----------------------------------------------------------------------------
(* Copilot chat: sending a message.                                        *)

\* The label of a step that only edits a form field, a prop or a toggle.
EvUi == [op |-> "ui", outcome |-> "none"]

\* Every call awaiting a response appends one message when it settles; a step
\* that needs room for n more messages is taken only while they fit.
Room(n) == Len(messages) + Len(sends) + Len(graphPosts) + n <= MaxMessages

\* The view after a handler has set messages and inputValue.
ViewWith(msgs, input) ==
    View(isOpen, paperId, autoPrompt, forceExpand, msgs, input, isCollapsed)

SendRejectedIgnoringLoading(input, loading) == Trim(input) = <<>>

SendRejectedIgnoringBlank(input, loading) == input = <<>> \/ loading

\* sendMessage: if (!inputValue.trim() || isLoading) return
SendRejected(input, loading) == Trim(input) = <<>> \/ loading

\* handleToolExecution for 'video-generation': the message of its result
VideoReply == AssistantMessage("video-placeholder", "video")

\* the assistant message for a tool result of 'graph-generation'
WorkflowReply == AssistantMessage("workflow-started", "workflow")

\* the body of the POST to /api/gemini/explain
ExplainRequest(prompt, pid) ==
    [kind |-> "explain", prompt |-> prompt, paperId |-> pid]

\* the GET of /api/memory/graphs issued by initializeGraphGeneration
GraphsRequest(prompt, pid) ==
    [kind |-> "graphs", prompt |-> prompt, paperId |-> pid]

\* sendMessage, called by the Send button or by Enter in the textarea, up to
\* its first await on the network; a 'video-generation' send has none and
\* runs to its end.
sendMessage ==
    /\ ~isCollapsed
    /\ IF SendRejected(inputValue, isLoading)
       THEN /\ UNCHANGED chatVars
            /\ ev' = [op |-> "sendMessage", outcome |-> "rejected"]
       ELSE /\ Room(2)
            /\ LET withUser == Append(messages, UserMessage(inputValue, selectedTool))
               IN CASE selectedTool = NoTool ->
                        /\ Commit(ViewWith(withUser, <<>>))
                        /\ isLoading' = TRUE
                        /\ sends' = Append(sends, ExplainRequest(inputValue, paperId))
                        /\ UNCHANGED selectedTool
                    [] selectedTool = "video-generation" ->
                        /\ Commit(ViewWith(Append(withUser, VideoReply), <<>>))
                        /\ isLoading' = FALSE
                        /\ selectedTool' = NoTool
                        /\ UNCHANGED sends
                    [] selectedTool = "graph-generation" ->
                        /\ Commit(ViewWith(withUser, <<>>))
                        /\ isLoading' = TRUE
                        /\ sends' = Append(sends, GraphsRequest(inputValue, paperId))
                        /\ UNCHANGED selectedTool
            /\ UNCHANGED <<chatProps, showTools, graphWorkflow, graphPosts>>
            /\ ev' = [op |-> "sendMessage",
                      outcome |-> IF selectedTool = NoTool THEN "explain" ELSE selectedTool]

\* How the POST to /api/gemini/explain may end: an OK response with or without
\* data.explanation, a non-OK response whose body has no error field or has
\* one, and a rejected fetch (or a body that is not JSON).
ExplainOutcomes == {"ok", "okEmpty", "notOk", "notOkError", "throw"}

\* the content of the assistant message sendMessage appends for an outcome
ExplainReply(outcome) ==
    AssistantMessage(CASE outcome = "ok" -> "explanation"
                       [] outcome = "okEmpty" -> "no-response"
                       [] outcome = "notOk" -> "api-error"
                       [] OTHER -> "fallback",
                     "none")

MessagesAfterExplainDropped(msgs, outcome) ==
    IF outcome \in {"ok", "okEmpty"} THEN Append(msgs, ExplainReply(outcome)) ELSE msgs

\* sendMessage after the fetch: setMessages(prev => [...prev, message])
MessagesAfterExplain(msgs, outcome) == Append(msgs, ExplainReply(outcome))

LoadingAfterSendStuck(outcome) == outcome \notin {"ok", "okEmpty"}

\* sendMessage: finally { setIsLoading(false) }
LoadingAfterSend(outcome) == FALSE

\* the continuation of sendMessage (no tool) when its POST settles
ExplainResponse(i, outcome) ==
    /\ i \in 1..Len(sends)
    /\ sends[i].kind = "explain"
    /\ Commit(ViewWith(MessagesAfterExplain(messages, outcome), inputValue))
    /\ isLoading' = LoadingAfterSend(outcome)
    /\ sends' = RemoveAt(sends, i)
    /\ UNCHANGED <<chatProps, selectedTool, showTools, graphWorkflow, graphPosts>>
    /\ ev' = [op |-> "explainResponse", outcome |-> outcome]

\* Bodies of an OK response of GET /api/memory/graphs, as {id, name} lists.
GraphIds == {"g1"}
GraphLists == { <<>>, <<"g1">> }

\* the continuation of sendMessage ('graph-generation') when the GET of
\* initializeGraphGeneration settles: the workflow is set up, the tool result
\* appended, the tool selection reset
GraphsResponse(i, outcome, graphs) ==
    /\ i \in 1..Len(sends)
    /\ sends[i].kind = "graphs"
    /\ graphWorkflow' = FreshWorkflow(IF outcome = "ok" THEN graphs ELSE <<>>)
    /\ Commit(ViewWith(Append(messages, WorkflowReply), inputValue))
    /\ selectedTool' = NoTool
    /\ isLoading' = FALSE
    /\ sends' = RemoveAt(sends, i)
    /\ UNCHANGED <<chatProps, showTools, graphPosts>>
    /\ ev' = [op |-> "graphsResponse", outcome |-> outcome]

\* clearChat, with the answer given to window.confirm
clearChat(ok) ==
    /\ ~isCollapsed
    /\ Len(messages) > 0
    /\ IF ok
       THEN /\ Commit(ViewWith(<<>>, inputValue))
            /\ selectedTool' = NoTool
       ELSE UNCHANGED <<messages, inputValue, isCollapsed, selectedTool>>
    /\ UNCHANGED <<chatProps, isLoading, showTools, graphWorkflow, sends, graphPosts>>
    /\ ev' = [op |-> "clearChat", outcome |-> IF ok THEN "confirm" ELSE "cancel"]

\* onChange of the textarea
setInputValue(text) ==
    /\ ~isCollapsed
    /\ inputValue' = text
    /\ UNCHANGED <<chatProps, messages, isLoading, isCollapsed, selectedTool, showTools,
                   graphWorkflow, sends, graphPosts>>
    /\ ev' = EvUi

\* the Tools button
ToggleTools ==
    /\ ~isCollapsed
    /\ showTools' = ~showTools
    /\ UNCHANGED <<chatProps, messages, inputValue, isLoading, isCollapsed, selectedTool,
                   graphWorkflow, sends, graphPosts>>
    /\ ev' = EvUi

handleToolSelect(tool) ==
    /\ ~isCollapsed
    /\ showTools
    /\ selectedTool' = tool
    /\ showTools' = FALSE
    /\ inputValue' = Placeholder(tool)
    /\ UNCHANGED <<chatProps, messages, isLoading, isCollapsed, graphWorkflow, sends,
                   graphPosts>>
    /\ ev' = EvUi

\* the x button of the tool selection header
ClearTool ==
    /\ ~isCollapsed
    /\ selectedTool # NoTool
    /\ selectedTool' = NoTool
    /\ UNCHANGED <<chatProps, messages, inputValue, isLoading, isCollapsed, showTools,
                   graphWorkflow, sends, graphPosts>>
    /\ ev' = EvUi

\* the collapse button of the header
ToggleCollapsed ==
    /\ Commit(View(isOpen, paperId, autoPrompt, forceExpand, messages, inputValue,
                   ~isCollapsed))
    /\ UNCHANGED <<chatProps, isLoading, selectedTool, showTools, graphWorkflow, sends,
                   graphPosts>>
    /\ ev' = EvUi

\* the parent renders the component with another paperId
SetPaperId(pid) ==
    /\ pid # paperId
    /\ paperId' = pid
    /\ Commit(View(isOpen, pid, autoPrompt, forceExpand, messages, inputValue, isCollapsed))
    /\ UNCHANGED <<isOpen, autoPrompt, forceExpand, isLoading, selectedTool, showTools,
                   graphWorkflow, sends, graphPosts>>
    /\ ev' = EvUi

\* The values of the autoPrompt prop: none, or a selected text.
AutoPromptValues == {"", "term"}

\* the parent renders the component with another isOpen
SetIsOpen(open) ==
    /\ open # isOpen
    /\ isOpen' = open
    /\ Commit(View(open, paperId, autoPrompt, forceExpand, messages, inputValue, isCollapsed))
    /\ UNCHANGED <<paperId, autoPrompt, forceExpand, isLoading, selectedTool, showTools,
                   graphWorkflow, sends, graphPosts>>
    /\ ev' = [op |-> "setIsOpen", outcome |-> "none"]

\* the parent renders the component with another autoPrompt
SetAutoPrompt(ap) ==
    /\ ap # autoPrompt
    /\ autoPrompt' = ap
    /\ Commit(View(isOpen, paperId, ap, forceExpand, messages, inputValue, isCollapsed))
    /\ UNCHANGED <<isOpen, paperId, forceExpand, isLoading, selectedTool, showTools,
                   graphWorkflow, sends, graphPosts>>
    /\ ev' = [op |-> "setAutoPrompt", outcome |-> "none"]

\* the parent renders the component with another forceExpand
SetForceExpand(force) ==
    /\ force # forceExpand
    /\ forceExpand' = force
    /\ Commit(View(isOpen, paperId, autoPrompt, force, messages, inputValue, isCollapsed))
    /\ UNCHANGED <<isOpen, paperId, autoPrompt, isLoading, selectedTool, showTools,
                   graphWorkflow, sends, graphPosts>>
    /\ ev' = [op |-> "setForceExpand", outcome |-> "none"]

\* the collapse toggle of the header, labelled
CollapseToggle ==
    /\ Commit(View(isOpen, paperId, autoPrompt, forceExpand, messages, inputValue,
                   ~isCollapsed))
    /\ UNCHANGED <<chatProps, isLoading, selectedTool, showTools, graphWorkflow, sends,
                   graphPosts>>
    /\ ev' = [op |-> "toggleCollapsed", outcome |-> "none"]

-----------------------------------------------------------------------------
(* Copilot chat: the graph-generation workflow.                            *)

\* What the user may type as the topic, and set on the slider (1 to 20).
Topics == {"", "attention"}
ClipCounts == {DefaultClipCount, 20}

\* The workflow card is rendered and its fields are not disabled.
WorkflowEditable ==
    /\ ~isCollapsed
    /\ graphWorkflow.isActive
    /\ graphWorkflow.step # "processing"

\* onChange of the topic Input
setTopic(topic) ==
    /\ WorkflowEditable
    /\ graphWorkflow' = [graphWorkflow EXCEPT !.topic = topic]
    /\ UNCHANGED <<chatProps, messages, inputValue, isLoading, isCollapsed, selectedTool,
                   showTools, sends, graphPosts>>
    /\ ev' = EvUi

\* onValueChange of the clip-count Slider
setClipCount(n) ==
    /\ WorkflowEditable
    /\ graphWorkflow' = [graphWorkflow EXCEPT !.clipCount = n]
    /\ UNCHANGED <<chatProps, messages, inputValue, isLoading, isCollapsed, selectedTool,
                   showTools, sends, graphPosts>>
    /\ ev' = EvUi

\* onValueChange of the graph Select: one of the available graphs
selectGraph(g) ==
    /\ WorkflowEditable
    /\ g \in Range(graphWorkflow.availableGraphs)
    /\ graphWorkflow' = [graphWorkflow EXCEPT !.selectedGraphId = g]
    /\ UNCHANGED <<chatProps, messages, inputValue, isLoading, isCollapsed, selectedTool,
                   showTools, sends, graphPosts>>
    /\ ev' = EvUi

\* the Cancel button of the workflow card
CancelWorkflow ==
    /\ WorkflowEditable
    /\ graphWorkflow' = [graphWorkflow EXCEPT !.isActive = FALSE]
    /\ UNCHANGED <<chatProps, messages, inputValue, isLoading, isCollapsed, selectedTool,
                   showTools, sends, graphPosts>>
    /\ ev' = EvUi

\* the Generate Graph button is rendered and not disabled
GenerateEnabled ==
    /\ ~isCollapsed
    /\ graphWorkflow.isActive
    /\ graphWorkflow.topic # ""
    /\ graphWorkflow.selectedGraphId # ""
    /\ graphWorkflow.step # "processing"

GenerationGuardWithoutPaper(pid, wf) == wf.topic # "" /\ wf.selectedGraphId # ""

\* executeGraphGeneration: the negation of its early return
GenerationGuard(pid, wf) == pid # "" /\ wf.topic # "" /\ wf.selectedGraphId # ""

\* the body of the POST to /api/graph-generation
GenerationRequest(pid, wf) ==
    [paperId |-> pid, topic |-> wf.topic, clipCount |-> wf.clipCount,
     graphId |-> wf.selectedGraphId]

\* executeGraphGeneration, called by the Generate Graph button, up to its await
executeGraphGeneration ==
    /\ GenerateEnabled
    /\ IF ~GenerationGuard(paperId, graphWorkflow)
       THEN /\ UNCHANGED chatVars
            /\ ev' = [op |-> "executeGraphGeneration", outcome |-> "returned"]
       ELSE /\ Room(1)
            /\ Len(graphPosts) < MaxGraphPosts
            /\ graphWorkflow' = [graphWorkflow EXCEPT !.step = "processing"]
            /\ graphPosts' = Append(graphPosts, GenerationRequest(paperId, graphWorkflow))
            /\ UNCHANGED <<chatProps, messages, inputValue, isLoading, isCollapsed,
                           selectedTool, showTools, sends>>
            /\ ev' = [op |-> "executeGraphGeneration", outcome |-> "posted"]

\* How the POST to /api/graph-generation may end: an OK response with the
\* result fields, an OK response without them (reading addedClips.length
\* throws), a non-OK response, a rejected fetch (or a body that is not JSON).
GenerationOutcomes == {"ok", "okMalformed", "notOk", "throw"}

\* the message executeGraphGeneration appends for an outcome
GenerationReply(outcome) ==
    IF outcome = "ok" THEN AssistantMessage("graph-success", "graph-success")
    ELSE AssistantMessage("graph-failed", "graph-error")

StepAfterGenerationAlwaysComplete(outcome) == "complete"

StepAfterGenerationStuck(outcome) == IF outcome = "ok" THEN "complete" ELSE "processing"

\* the step executeGraphGeneration sets for an outcome
StepAfterGeneration(outcome) == IF outcome = "ok" THEN "complete" ELSE "topic"

\* the continuation of executeGraphGeneration when its POST settles
GenerationResponse(i, outcome) ==
    /\ i \in 1..Len(graphPosts)
    /\ Commit(ViewWith(Append(messages, GenerationReply(outcome)), inputValue))
    /\ graphWorkflow' = [graphWorkflow EXCEPT !.step = StepAfterGeneration(outcome),
                                              !.isActive = FALSE]
    /\ graphPosts' = RemoveAt(graphPosts, i)
    /\ UNCHANGED <<chatProps, isLoading, selectedTool, showTools, sends>>
    /\ ev' = [op |-> "generationResponse", outcome |-> outcome]

-----------------------------------------------------------------------------
(* Specifications: one per component; the other components stay put.      *)

NextStore == StoreStep /\ UNCHANGED <<sidebarVars, chatVars>>

EvInitStore == [op |-> "init", id |-> NoId, wasOpen |-> FALSE, wasActive |-> FALSE]

InitStoreSpec ==
    /\ InitStore
    /\ InitSidebar
    /\ InitChat(TRUE, "", "", FALSE)
    /\ ev = EvInitStore

SpecStore == InitStoreSpec /\ [][NextStore]_vars

NextSidebar == SidebarStep /\ UNCHANGED <<storeVars, chatVars>>

EvInitSidebar == [op |-> "init", id |-> NoId, outcome |-> "none"]

InitSidebarSpec ==
    /\ InitStore
    /\ InitSidebar
    /\ InitChat(TRUE, "", "", FALSE)
    /\ ev = EvInitSidebar

SpecSidebar == InitSidebarSpec /\ [][NextSidebar]_vars

\* Typing, tool selection, sending and the responses of a send.
SendStep ==
    \/ sendMessage
    \/ \E i \in 1..Len(sends), outcome \in ExplainOutcomes : ExplainResponse(i, outcome)
    \/ \E i \in 1..Len(sends), outcome \in {"ok", "throw"}, graphs \in GraphLists :
           GraphsResponse(i, outcome, graphs)
    \/ \E ok \in BOOLEAN : clearChat(ok)
    \/ \E text \in InputTexts : setInputValue(text)
    \/ ToggleTools
    \/ \E tool \in ToolIds : handleToolSelect(tool)
    \/ ClearTool
    \/ ToggleCollapsed
    \/ \E pid \in PaperIdValues : SetPaperId(pid)

\* The workflow card, the generation request and its responses.
WorkflowStep ==
    \/ \E topic \in Topics : setTopic(topic)
    \/ \E n \in ClipCounts : setClipCount(n)
    \/ \E g \in GraphIds : selectGraph(g)
    \/ CancelWorkflow
    \/ executeGraphGeneration
    \/ \E i \in 1..Len(graphPosts), outcome \in GenerationOutcomes :
           GenerationResponse(i, outcome)

NextSend == SendStep /\ UNCHANGED <<storeVars, sidebarVars>>

EvInitChat == [op |-> "init", outcome |-> "none"]

InitChatSpec ==
    /\ InitStore
    /\ InitSidebar
    /\ \E open \in BOOLEAN, pid \in PaperIdValues : InitChat(open, pid, "", FALSE)
    /\ ev = EvInitChat

SpecSend == InitChatSpec /\ [][NextSend]_vars

\* The responses of the requests sendMessage started. The fetch of a send
\* settles (resolves or rejects) and its continuation then runs.
SendResponses ==
    /\ \/ \E i \in 1..Len(sends), outcome \in ExplainOutcomes : ExplainResponse(i, outcome)
       \/ \E i \in 1..Len(sends), outcome \in {"ok", "throw"}, graphs \in GraphLists :
              GraphsResponse(i, outcome, graphs)
    /\ UNCHANGED <<storeVars, sidebarVars>>

\* The steps on the paths of a send: typing, choosing a tool, sending,
\* clearing, and the responses.
LoadingStep ==
    \/ sendMessage
    \/ \E i \in 1..Len(sends), outcome \in ExplainOutcomes : ExplainResponse(i, outcome)
    \/ \E i \in 1..Len(sends), outcome \in {"ok", "throw"}, graphs \in GraphLists :
           GraphsResponse(i, outcome, graphs)
    \/ \E ok \in BOOLEAN : clearChat(ok)
    \/ \E text \in InputTexts : setInputValue(text)
    \/ ToggleTools
    \/ \E tool \in ToolIds : handleToolSelect(tool)

NextLoading == LoadingStep /\ UNCHANGED <<storeVars, sidebarVars>>

InitLoadingSpec ==
    /\ InitStore
    /\ InitSidebar
    /\ \E open \in BOOLEAN : InitChat(open, "paper-1", "", FALSE)
    /\ ev = EvInitChat

\* The sends of the chat, with every pending request of a send eventually
\* settled.
SpecSendLive == InitLoadingSpec /\ [][NextLoading]_vars /\ WF_vars(SendResponses)

\* The graph-generation tool from its selection to the result of the
\* generation: the workflow card, and the chat steps that start the workflow.
GraphStep ==
    \/ WorkflowStep
    \/ ToggleTools
    \/ handleToolSelect("graph-generation")
    \/ sendMessage
    \/ \E i \in 1..Len(sends), outcome \in {"ok", "throw"}, graphs \in GraphLists :
           GraphsResponse(i, outcome, graphs)
    \/ \E ok \in BOOLEAN : clearChat(ok)
    \/ \E pid \in PaperIdValues : SetPaperId(pid)

NextGraph == GraphStep /\ UNCHANGED <<storeVars, sidebarVars>>

InitGraphSpec ==
    /\ InitStore
    /\ InitSidebar
    /\ \E open \in BOOLEAN, pid \in PaperIdValues : InitChat(open, pid, "", FALSE)
    /\ ev = EvInitChat

SpecGraph == InitGraphSpec /\ [][NextGraph]_vars

\* The panel under changing props: open and close, auto-prompt, force-expand,
\* paper, the collapse toggle, typing, sending and clearing.
PanelStep ==
    \/ \E open \in BOOLEAN : SetIsOpen(open)
    \/ \E ap \in AutoPromptValues : SetAutoPrompt(ap)
    \/ \E force \in BOOLEAN : SetForceExpand(force)
    \/ \E pid \in PaperIdValues : SetPaperId(pid)
    \/ CollapseToggle
    \/ \E text \in InputTexts : setInputValue(text)
    \/ sendMessage
    \/ \E i \in 1..Len(sends), outcome \in {"ok", "throw"} : ExplainResponse(i, outcome)
    \/ \E ok \in BOOLEAN : clearChat(ok)

NextPanel == PanelStep /\ UNCHANGED <<storeVars, sidebarVars>>

InitPanelSpec ==
    /\ InitStore
    /\ InitSidebar
    /\ \E open \in BOOLEAN, ap \in AutoPromptValues, force \in BOOLEAN :
           InitChat(open, "", ap, force)
    /\ ev = EvInitChat

SpecPanel == InitPanelSpec /\ [][NextPanel]_vars

-----------------------------------------------------------------------------
(* Reader store: properties.                                               *)

\* C7: when only addPaper, removePaper, clearAllPapers and setActivePaperId
\* have been called since the initial state, the ids of the entries of
\* openPapers are pairwise distinct.
C7_DistinctIds ==
    ~usedSetOpenPapers =>
        \A i, j \in 1..Len(openPapers) :
            openPapers[i].id = openPapers[j].id => i = j

\* C7 witness: addPaper was called with an id that was already open, while
\* two tabs are open.
C7_Witness ==
    /\ ~usedSetOpenPapers
    /\ ev.op = "addPaper"
    /\ ev.wasOpen
    /\ Len(openPapers) >= 2

\* new consists of the elements of list at the indices in keep, in the order
\* they have in list.
IsSelection(new, list, keep) ==
    /\ Len(new) = Cardinality(keep)
    /\ \A j \in 1..Len(new) :
           \E i \in keep :
               /\ Cardinality({ k \in keep : k <= i }) = j
               /\ new[j] = list[i]

\* new is list without the entries whose id is id, the rest in their order.
IsListWithout(new, list, id) ==
    IsSelection(new, list, { i \in 1..Len(list) : list[i].id # id })

\* What a removePaper(id) step is claimed to do to the lists and the active id.
C8_RemoveEffect(id) ==
    /\ IsListWithout(openPapers', openPapers, id)
    /\ activePaperId' = IF activePaperId = id THEN NoId ELSE activePaperId

\* C8 (amended): removePaper(id) removes exactly the entries whose id equals
\* id, keeps all other entries in their original relative order, sets
\* activePaperId to '' when it equalled id and otherwise leaves it unchanged;
\* removing an id that is not open leaves openPapers unchanged.
C8_RemovePaper ==
    [][ ev'.op = "removePaper" =>
            /\ C8_RemoveEffect(ev'.id)
            /\ (~IsOpenId(openPapers, ev'.id) => openPapers' = openPapers) ]_vars

\* C8 witness: an open and active paper was removed and two others remain.
C8_Witness ==
    /\ ev.op = "removePaper"
    /\ ev.wasOpen
    /\ ev.wasActive
    /\ activePaperId = NoId
    /\ Len(openPapers) >= 2

\* C8 as originally stated: in addition, removing an id that is not open
\* changes nothing (neither openPapers nor activePaperId).
C8_Original ==
    [][ ev'.op = "removePaper" =>
            /\ C8_RemoveEffect(ev'.id)
            /\ (~IsOpenId(openPapers, ev'.id) =>
                    UNCHANGED <<openPapers, activePaperId>>) ]_vars

-----------------------------------------------------------------------------
(* Papers sidebar: properties.                                             *)

\* Two characters are the same letter up to case.
SameLetter(a, b) ==
    \/ a = b
    \/ {a, b} \in { {"a", "A"}, {"b", "B"}, {"c", "C"} }

\* text contains q as a case-insensitive substring.
ContainsIgnoringCase(text, q) ==
    \E k \in 0..(Len(text) - Len(q)) :
        \A i \in 1..Len(q) : SameLetter(text[k+i], q[i])

\* The indices of the papers whose title or one of whose authors contains q.
MatchingIdx(list, q) ==
    { i \in 1..Len(list) :
        \/ ContainsIgnoringCase(list[i].title, q)
        \/ \E a \in 1..Len(list[i].authors) :
               ContainsIgnoringCase(list[i].authors[a], q) }

C10_DeleteOnlyWhenOk ==
    [][ /\ \A paper \in Range(papers) \ Range(papers') :
               paper.id \in confirmed /\ paper.id \in okDeleted'
        /\ (ev'.op = "deletePaper" /\ ev'.outcome = "cancel") =>
               papers' = papers /\ deletes' = deletes
        /\ (ev'.op = "deleteResponse" /\ ev'.outcome \in {"notOk", "throw"}) =>
               papers' = papers ]_vars

\* C10 witness: a confirmed DELETE returned OK and its paper is gone, while
\* other papers are still listed.
C10_Witness ==
    /\ ev.op = "deleteResponse"
    /\ ev.outcome = "ok"
    /\ ev.id \in confirmed
    /\ papers # <<>>
    /\ \A i \in 1..Len(papers) : papers[i].id # ev.id

-----------------------------------------------------------------------------
(* Copilot chat: properties of sending.                                    *)

\* A text is empty or consists of blanks only.
IsBlank(text) == \A i \in 1..Len(text) : text[i] = " "

\* new is old with exactly one message added at its end, an assistant's.
OneAssistantMessageAppended(new, old) ==
    /\ Len(new) = Len(old) + 1
    /\ SubSeq(new, 1, Len(old)) = old
    /\ ~new[Len(new)].isUser

\* C1: at most one request started by sendMessage is outstanding, isLoading
\* is true as long as one is, and sendMessage called while isLoading is true
\* appends no message and issues no request.
C1_OneSendOutstanding ==
    /\ [](Len(sends) <= 1 /\ (sends # <<>> => isLoading))
    /\ [][ (ev'.op = "sendMessage" /\ isLoading) =>
               UNCHANGED <<messages, sends, graphPosts>> ]_vars

\* C1 witness: sendMessage was called with a sendable input while a request
\* was outstanding, and returned.
C1_Witness ==
    /\ ev.op = "sendMessage"
    /\ ev.outcome = "rejected"
    /\ ~IsBlank(inputValue)
    /\ isLoading
    /\ Len(sends) = 1

\* C2: when the explain request fails (a non-OK response or a thrown error)
\* exactly one assistant message, the fallback or the API error text, is
\* appended, the request is gone and none is issued, and isLoading is false.
C2_ExplainFailure ==
    [][ (ev'.op = "explainResponse" /\ ev'.outcome \in {"notOk", "notOkError", "throw"}) =>
            /\ OneAssistantMessageAppended(messages', messages)
            /\ messages'[Len(messages')].content \in { <<"fallback">>, <<"api-error">> }
            /\ Len(sends') = Len(sends) - 1
            /\ graphPosts' = graphPosts
            /\ ~isLoading' ]_vars

\* C2 witness: an explain request threw and the fallback message is the last.
C2_Witness ==
    /\ ev.op = "explainResponse"
    /\ ev.outcome = "throw"
    /\ ~isLoading
    /\ sends = <<>>
    /\ messages # <<>>
    /\ messages[Len(messages)].content = <<"fallback">>

\* C3: every accepted sendMessage with no tool selected appends exactly one
\* user message whose content is the input text, clears the input, issues
\* exactly one POST to the explain endpoint carrying that text as prompt
\* together with the current paperId, and on completion appends exactly one
\* assistant message after the user message.
C3_SendExplain ==
    [][ /\ (ev'.op = "sendMessage" /\ ~isLoading /\ ~IsBlank(inputValue)
                /\ selectedTool = NoTool) =>
               /\ Len(messages') = Len(messages) + 1
               /\ SubSeq(messages', 1, Len(messages)) = messages
               /\ messages'[Len(messages')].isUser
               /\ messages'[Len(messages')].content = inputValue
               /\ inputValue' = <<>>
               /\ sends' = Append(sends, [kind |-> "explain", prompt |-> inputValue,
                                           paperId |-> paperId])
               /\ graphPosts' = graphPosts
        /\ ev'.op = "explainResponse" =>
               /\ OneAssistantMessageAppended(messages', messages)
               /\ sends' = <<>>
               /\ graphPosts' = graphPosts
               /\ \E k \in 1..Len(messages) :
                      /\ messages[k].isUser
                      /\ messages[k].content = sends[1].prompt ]_vars

\* C4: sendMessage with an empty or whitespace-only input changes none of
\* messages, inputValue, isLoading and selectedTool and issues no request.
C4_BlankSendIsNoOp ==
    [][ (ev'.op = "sendMessage" /\ IsBlank(inputValue)) =>
            UNCHANGED <<messages, inputValue, isLoading, selectedTool, sends,
                        graphPosts>> ]_vars

\* C4 witness: sendMessage was called with a whitespace-only input while
\* nothing was loading.
C4_Witness ==
    /\ ev.op = "sendMessage"
    /\ ev.outcome = "rejected"
    /\ inputValue = <<" ">>
    /\ ~isLoading

-----------------------------------------------------------------------------
(* Copilot chat: properties of the graph-generation workflow.              *)

\* C5: a graph-generation POST is issued only when paperId, the topic and the
\* selected graph id are all non-empty, and carries them; when one of them is
\* empty executeGraphGeneration changes neither the workflow nor messages
\* and issues no request.
C5_GenerationGuard ==
    /\ [](\A i \in 1..Len(graphPosts) :
              /\ graphPosts[i].paperId # ""
              /\ graphPosts[i].topic # ""
              /\ graphPosts[i].graphId # "")
    /\ [][ /\ graphPosts' # graphPosts /\ Len(graphPosts') >= Len(graphPosts) =>
                  /\ paperId # ""
                  /\ graphWorkflow.topic # ""
                  /\ graphWorkflow.selectedGraphId # ""
           /\ (ev'.op = "executeGraphGeneration"
                   /\ (paperId = "" \/ graphWorkflow.topic = ""
                           \/ graphWorkflow.selectedGraphId = "")) =>
                  UNCHANGED <<graphWorkflow, messages, graphPosts, sends>> ]_vars

\* C5 witness: Generate Graph was clicked with a topic and a graph but
\* without a paperId, and executeGraphGeneration returned.
C5_Witness ==
    /\ ev.op = "executeGraphGeneration"
    /\ ev.outcome = "returned"
    /\ paperId = ""
    /\ graphWorkflow.topic # ""
    /\ graphWorkflow.selectedGraphId # ""
    /\ graphWorkflow.step = "topic"
    /\ graphPosts = <<>>

\* C6 (amended): the workflow step only takes the values topic, processing
\* and complete (clipCount and graphSelection are never entered): Generate
\* moves it from topic directly to processing, an OK response of a generation
\* sets complete, a failed one sets topic, and a restart of the workflow sets
\* topic.
C6_StepOrder ==
    /\ [](graphWorkflow.step \in {"topic", "processing", "complete"})
    /\ [][ graphWorkflow'.step # graphWorkflow.step =>
               \/ /\ graphWorkflow.step = "topic"
                  /\ graphWorkflow'.step = "processing"
                  /\ ev'.op = "executeGraphGeneration"
               \/ /\ graphWorkflow'.step = "complete"
                  /\ ev'.op = "generationResponse"
                  /\ ev'.outcome = "ok"
               \/ /\ graphWorkflow'.step = "topic"
                  /\ \/ ev'.op = "generationResponse" /\ ev'.outcome # "ok"
                     \/ ev'.op = "graphsResponse" ]_vars

\* C6 witness: Generate Graph moved the workflow to processing.
C6_Witness ==
    /\ ev.op = "executeGraphGeneration"
    /\ ev.outcome = "posted"
    /\ graphWorkflow.step = "processing"
    /\ graphWorkflow.isActive

\* C6 as originally stated: the step changes only along topic, clipCount,
\* graphSelection, processing, complete, or back to topic.
C6_Original ==
    [][ graphWorkflow'.step # graphWorkflow.step =>
            \/ <<graphWorkflow.step, graphWorkflow'.step>> \in
                   { <<"topic", "clipCount">>, <<"clipCount", "graphSelection">>,
                     <<"graphSelection", "processing">>, <<"processing", "complete">> }
            \/ graphWorkflow'.step = "topic" ]_vars

C12_OneGenerationOutstanding == Len(graphPosts) <= 1

\* C13: whenever the Generate Graph button is enabled, clicking it moves the
\* workflow to step processing and issues exactly one graph-generation
\* request (the button's condition and the guard of executeGraphGeneration
\* accept the same states).
C13_GenerateWhenEnabled ==
    [][ (ev'.op = "executeGraphGeneration" /\ ~isCollapsed /\ graphWorkflow.isActive
            /\ graphWorkflow.topic # "" /\ graphWorkflow.selectedGraphId # ""
            /\ graphWorkflow.step # "processing") =>
            /\ graphWorkflow'.step = "processing"
            /\ Len(graphPosts') = Len(graphPosts) + 1 ]_vars

\* C14: every accepted sendMessage eventually sets isLoading back to false,
\* provided its pending request eventually settles: the chat never stays in
\* the loading state.
C14_LoadingEnds == isLoading ~> ~isLoading

\* C14 witness: a send was accepted and its request is pending.
C14_Witness ==
    /\ ev.op = "sendMessage"
    /\ ev.outcome = "explain"
    /\ isLoading
    /\ Len(sends) = 1

\* C15: when a tool is selected at an accepted send, no request to the
\* explain endpoint is issued for that send, the user message records the
\* tool's id in toolUsed, exactly one assistant message carrying the tool
\* result is appended, and selectedTool is null once the send has completed
\* (in the same step for the video tool, when the graphs request settles for
\* the graph tool).
C15_ToolSend ==
    [][ /\ (ev'.op = "sendMessage" /\ ~isLoading /\ ~IsBlank(inputValue)
                /\ selectedTool # NoTool) =>
               /\ \A i \in 1..Len(sends') : sends'[i].kind # "explain"
               /\ Len(messages') > Len(messages)
               /\ SubSeq(messages', 1, Len(messages)) = messages
               /\ messages'[Len(messages) + 1].isUser
               /\ messages'[Len(messages) + 1].content = inputValue
               /\ messages'[Len(messages) + 1].toolUsed = selectedTool
               /\ IF selectedTool = "video-generation"
                  THEN /\ Len(messages') = Len(messages) + 2
                       /\ ~messages'[Len(messages')].isUser
                       /\ messages'[Len(messages')].toolResult = "video"
                       /\ selectedTool' = NoTool
                       /\ sends' = sends
                  ELSE /\ Len(messages') = Len(messages) + 1
                       /\ Len(sends') = Len(sends) + 1
        /\ ev'.op = "graphsResponse" =>
               /\ OneAssistantMessageAppended(messages', messages)
               /\ messages'[Len(messages')].toolResult = "workflow"
               /\ selectedTool' = NoTool
               /\ sends' = <<>> ]_vars

\* C15 witness: a send with the graph tool has completed; its message
\* records the tool, the tool result follows it and no tool is selected.
C15_Witness ==
    /\ ev.op = "graphsResponse"
    /\ selectedTool = NoTool
    /\ Len(messages) >= 2
    /\ messages[Len(messages) - 1].isUser
    /\ messages[Len(messages) - 1].toolUsed = "graph-generation"
    /\ messages[Len(messages)].toolResult = "workflow"

-----------------------------------------------------------------------------
(* Copilot chat: properties of the panel's effects.                        *)

\* m is a welcome message.
IsWelcome(m) == ~m.isUser /\ m.content \in { <<"welcome">>, <<"welcome-paper">> }

\* C16: whenever the chat is open and effects have settled messages is not
\* empty: an empty list is replaced by exactly one welcome message, on
\* opening and after clearChat, and a welcome message is only ever the
\* first of the list (never added to a non-empty list).
C16_WelcomeWhenOpen ==
    /\ [](isOpen => messages # <<>>)
    /\ [](\A k \in 2..Len(messages) : ~IsWelcome(messages[k]))
    /\ [][ /\ (isOpen' /\ (\/ ev'.op = "setIsOpen" /\ messages = <<>>
                           \/ ev'.op = "clearChat" /\ ev'.outcome = "confirm")) =>
                  (Len(messages') = 1 /\ IsWelcome(messages'[1]))
           /\ messages # <<>> /\ ev'.op \notin {"clearChat"} =>
                  (SubSeq(messages', 1, Len(messages)) = messages
                       /\ \A k \in Len(messages) + 1..Len(messages') :
                              ~IsWelcome(messages'[k])) ]_vars

\* C16 witness: the open chat was cleared and holds the welcome message only.
C16_Witness ==
    /\ ev.op = "clearChat"
    /\ ev.outcome = "confirm"
    /\ isOpen
    /\ Len(messages) = 1
    /\ IsWelcome(messages[1])

\* C17: while isOpen is true and autoPrompt is non-empty or forceExpand is
\* true, the panel is expanded in every settled state; the collapse toggle
\* pressed under these props leaves it expanded.
C17_StaysExpanded ==
    /\ []((isOpen /\ (autoPrompt # "" \/ forceExpand)) => ~isCollapsed)
    /\ [][ (ev'.op = "toggleCollapsed" /\ isOpen /\ (autoPrompt # "" \/ forceExpand)) =>
               (~isCollapsed /\ ~isCollapsed') ]_vars

\* C17 witness: the collapse toggle was pressed with forceExpand set on the
\* open chat, and the panel is expanded.
C17_Witness ==
    /\ ev.op = "toggleCollapsed"
    /\ isOpen
    /\ forceExpand
    /\ autoPrompt = ""
    /\ ~isCollapsed

-----------------------------------------------------------------------------
(* Reader store: addPaper and the active tab.                              *)

\* C18: addPaper with an id that is already open leaves openPapers and
\* activePaperId unchanged; with a new id it appends the entry at the end,
\* leaves the existing entries as they are and activePaperId unchanged.
C18_AddPaperIdempotent ==
    [][ ev'.op = "addPaper" =>
            /\ activePaperId' = activePaperId
            /\ IF \E i \in 1..Len(openPapers) : openPapers[i].id = ev'.id
               THEN openPapers' = openPapers
               ELSE /\ Len(openPapers') = Len(openPapers) + 1
                    /\ SubSeq(openPapers', 1, Len(openPapers)) = openPapers
                    /\ openPapers'[Len(openPapers')].id = ev'.id ]_vars

\* C18 witness: addPaper was called with an id already open, among two
\* open papers.
C18_Witness ==
    /\ ev.op = "addPaper"
    /\ ev.wasOpen
    /\ Len(openPapers) >= 2
    /\ \E i \in 1..Len(openPapers) : openPapers[i].id = ev.id

\* C19: when setActivePaperId was only called with the id of a paper open
\* at the time and setOpenPapers was not used, activePaperId is '' or the
\* id of an entry of openPapers.
C19_ActiveIsOpen ==
    (~usedSetOpenPapers /\ ~strayActivate) =>
        \/ activePaperId = NoId
        \/ \E i \in 1..Len(openPapers) : openPapers[i].id = activePaperId

\* C19 witness: the active paper was removed while another stayed open.
C19_Witness ==
    /\ ~usedSetOpenPapers
    /\ ~strayActivate
    /\ ev.op = "removePaper"
    /\ ev.wasActive
    /\ ev.wasOpen
    /\ activePaperId = NoId
    /\ openPapers # <<>>

-----------------------------------------------------------------------------
(* Papers sidebar: overlapping deletions.                                  *)

\* C20: once the DELETE request for a paper has returned OK and its result
\* has been applied, that paper is not in papers again, however several
\* confirmed deletions overlap.
C20_DeletedStaysDeleted ==
    \A id \in okDeleted : \A i \in 1..Len(papers) : papers[i].id # id

=============================================================================
